---------------------------- MODULE Spec2Model ----------------------------
(***************************************************************************)
(* Model of src/recommendation.py: the k-fold KMeans baseline estimator    *)
(* (return_datasets, train_kmeans_and_predict, predict_rating_kmeans), the *)
(* rule miner (getFrequentItemset, getRules) and the rule-based refiner    *)
(* (filterRules, predictRatingRules, roundRating).                         *)
(*                                                                         *)
(* Numbers.  Ratings are integers in hundredths (4.0 is 400).  Supports,   *)
(* confidences, cluster means and squared errors are exact fractions       *)
(* [n |-> numerator, d |-> denominator]; the floats of the source are      *)
(* modelled by the exact values they approximate.                          *)
(*                                                                         *)
(* Data frames.  A frame is [cols, rows]: cols is the set of columns the   *)
(* frame carries besides userId, movieId, rating, title and the genre      *)
(* flags (a subset of {"cluster", "predicted_rating"}), rows the sequence  *)
(* of its rows.  The title column is dropped wherever the source reads a   *)
(* frame and is left out.  The genre flag columns of a row are the set of  *)
(* genres whose flag is 1.                                                 *)
(***************************************************************************)
EXTENDS Integers, Sequences, FiniteSets, TLC

VARIABLES
    \* cross-validation pipeline
    data,               \* the dataset handed to return_datasets
    train_df,           \* list of train frames, one per fold (mutated in place)
    test_df,            \* list of test frames, one per fold (mutated in place)
    cv,                 \* outcome of the last train_kmeans_and_predict call
    calls,              \* number of train_kmeans_and_predict calls so far
    frequent_itemsets,  \* outcome of the last getFrequentItemset call
    rules,              \* rules[fold][cluster]: outcome of getRules / argument of filterRules
    query,              \* outcome of the last predict_rating_kmeans call
    \* refiner
    df,                   \* filterRules argument df
    cluster_mean_ratings, \* filterRules argument cluster_mean_ratings
    filtered,             \* the last filterRules call: arguments and result
    important_rules,      \* predictRatingRules argument
    predicted,            \* result of predictRatingRules
    rating,               \* roundRating argument
    rounded               \* result of roundRating

vars == <<data, train_df, test_df, cv, calls, frequent_itemsets, rules, query,
          df, cluster_mean_ratings, filtered, important_rules, predicted,
          rating, rounded>>

pipelineVars == <<data, train_df, test_df, cv, calls, frequent_itemsets, query>>
filterVars   == <<df, cluster_mean_ratings, filtered>>
rulesVars    == <<important_rules, predicted>>
roundVars    == <<rating, rounded>>

-----------------------------------------------------------------------------
(* Bounds and universes of the inputs                                      *)

MaxRows      == 2     \* rows of the df handed to filterRules
MaxRules     == 1     \* rules per cluster in the rules handed to filterRules
MaxImportant == 2     \* length of the list handed to predictRatingRules
MaxRating    == 500   \* largest rating handed to roundRating, in hundredths
MaxData      == 3     \* rows of the dataset that is split into folds
MaxCalls     == 2     \* successive train_kmeans_and_predict calls
MaxClusters  == 2     \* largest n_clusters tried

ClusterIds == {0, 1}          \* the cluster argument handed to filterRules
UserIds  == {1, 2}
MovieIds == {1, 2}            \* movies of the catalogue
QueryMovieIds == {1, 2, 3}    \* movie 3 is in no dataset
Ratings  == {100, 400}        \* ratings of the dataset rows, in hundredths
HistRatings == {50, 300, 400} \* historical ratings handed to predictRatingRules

GenreCols == <<"Action", "Comedy", "Drama">>
Genres == {GenreCols[i] : i \in 1..Len(GenreCols)}

\* the genre flags of the catalogue's movies
GenresOf(m) ==
    IF m = 1 THEN {"Action", "Comedy"}
    ELSE IF m = 2 THEN {"Comedy", "Drama"}
    ELSE {}

Frac(n, d) == [n |-> n, d |-> d]
FracAdd(a, b) == [n |-> a.n * b.d + b.n * a.d, d |-> a.d * b.d]
FracEq(a, b) == a.n * b.d = b.n * a.d

SeqsUpTo(S, n) == UNION {[1..k -> S] : k \in 0..n}
Range(s) == {s[i] : i \in 1..Len(s)}

RECURSIVE Concat(_)
Concat(ss) == IF ss = <<>> THEN <<>> ELSE Head(ss) \o Concat(Tail(ss))

RECURSIVE SeqSum(_)
SeqSum(s) == IF s = <<>> THEN 0 ELSE Head(s) + SeqSum(Tail(s))

-----------------------------------------------------------------------------
(* roundRating, lines 289-306                                              *)

\* int(rating) for a rating in hundredths: truncation toward zero
IntPart(x) == IF x >= 0 THEN x \div 100 ELSE -((-x) \div 100)

roundRating_lateHalf(x) ==
    LET decimal == x - 100 * IntPart(x)
    IN  IF decimal <= 25 THEN 100 * IntPart(x)
        ELSE IF decimal < 75 THEN 100 * IntPart(x) + 50
        ELSE 100 * IntPart(x) + 100

roundRating(x) ==
    LET decimal == x - 100 * IntPart(x)
    IN  IF decimal < 25 THEN 100 * IntPart(x)
        ELSE IF decimal < 75 THEN 100 * IntPart(x) + 50
        ELSE 100 * IntPart(x) + 100

NotCalled == [called |-> FALSE, value |-> 0]
Returned(v) == [called |-> TRUE, value |-> v]

RoundRating ==
    /\ rounded' = Returned(roundRating(rating))
    /\ UNCHANGED <<pipelineVars, rules, filterVars, rulesVars, rating>>

-----------------------------------------------------------------------------
(* predictRatingRules, lines 265-287                                       *)

\* round(num/den, 2) on a value in hundredths: Python rounds to the nearest
\* and, when the value is exactly half way, to the even neighbour
Round2(num, den) ==
    LET q == num \div den
        r == num % den
    IN  IF 2 * r < den THEN q
        ELSE IF 2 * r > den THEN q + 1
        ELSE IF q % 2 = 0 THEN q ELSE q + 1

\* the two accumulators of the loop of lines 279-281 after the whole list
RECURSIVE Accumulate(_, _, _)
Accumulate(list, predicted_rating, sum_confidence) ==
    IF list = <<>> THEN [predicted_rating |-> predicted_rating,
                         sum_confidence |-> sum_confidence]
    ELSE LET rule == Head(list)[1]
             hist == Head(list)[2]
         IN  Accumulate(Tail(list),
                        FracAdd(predicted_rating,
                                Frac(rule.confidence.n * hist, rule.confidence.d)),
                        FracAdd(sum_confidence, rule.confidence))

predictRatingRules_unweighted(list) ==
    LET acc == Accumulate(list, Frac(0, 1), Frac(0, 1))
    IN  IF acc.sum_confidence.n = 0 THEN 0
        ELSE Round2(SeqSum([i \in 1..Len(list) |-> list[i][2]]), Len(list))

predictRatingRules(list) ==
    LET acc == Accumulate(list, Frac(0, 1), Frac(0, 1))
    IN  IF acc.sum_confidence.n = 0 THEN 0
        ELSE Round2(acc.predicted_rating.n * acc.sum_confidence.d,
                    acc.predicted_rating.d * acc.sum_confidence.n)

PredictRatingRules ==
    /\ predicted' = Returned(predictRatingRules(important_rules))
    /\ UNCHANGED <<pipelineVars, rules, filterVars, important_rules, roundVars>>

-----------------------------------------------------------------------------
(* Rows and frames                                                         *)

NoCluster    == -1                       \* the row has no cluster column
NoPrediction == [type |-> "absent"]      \* the row has no predicted_rating column
NaN          == [type |-> "NaN"]
Mean(f)      == [type |-> "number", n |-> f.n, d |-> f.d]

Row(u, m, r) ==
    [userId |-> u, movieId |-> m, rating |-> r, genres |-> GenresOf(m),
     cluster |-> NoCluster, predicted_rating |-> NoPrediction]

RowUniverse == {Row(u, m, r) : u \in UserIds, m \in MovieIds, r \in Ratings}

\* each (userId, movieId) pair appears at most once in a dataset
UniquePairs(rows) ==
    \A i, j \in 1..Len(rows) :
        (rows[i].userId = rows[j].userId /\ rows[i].movieId = rows[j].movieId) => i = j

Frame(cols, rows) == [cols |-> cols, rows |-> rows]

\* a per-cluster baseline table as line 161 builds it: cluster id -> mean rating
Series(t) == [type |-> "Series", value |-> t]

\* a row of the frame association_rules returns
Rule(a, c, conf, supp) ==
    [antecedents |-> a, consequents |-> c, confidence |-> conf, support |-> supp]

Datasets(universe, minLen, maxLen) ==
    {Frame({}, rows) : rows \in {s \in SeqsUpTo(universe, maxLen) :
                                    Len(s) >= minLen /\ UniquePairs(s)}}

\* the rows of the dataset that is split into folds: user 1 rated every movie,
\* the other users movie 1
RatedPairs ==
    {Row(p[1], p[2], IF p[1] = p[2] THEN 400 ELSE 100) :
        p \in {q \in UserIds \X MovieIds : q[1] = 1 \/ q[2] = 1}}

\* does column c of the row hold the value 1 (x == 1 in lines 249 and 252)
IsOne(row, c) ==
    IF c \in Genres THEN c \in row.genres
    ELSE IF c = "rating" THEN row.rating = 100
    ELSE IF c = "cluster" THEN row.cluster = 1
    ELSE /\ row.predicted_rating.type = "number"
         /\ row.predicted_rating.n = row.predicted_rating.d

-----------------------------------------------------------------------------
(* filterRules, lines 217-263                                              *)

Number(v)   == [type |-> "number", value |-> v]
List(v)     == [type |-> "list", value |-> v]
Raised(e)   == [type |-> "raised", value |-> e]

\* df[df['userId'] == userId], line 236
UserMovies(frame, userId) == SelectSeq(frame.rows, LAMBDA r : r.userId = userId)

\* lines 248-250: the (rating, genres) pairs of the user's history; genres is
\* every column left after the drop whose value is 1, the rating column included
History(frame, user_movies) ==
    [i \in 1..Len(user_movies) |->
        [rating |-> user_movies[i].rating,
         genres |-> {c \in Genres \cup {"rating"} \cup frame.cols :
                        IsOne(user_movies[i], c)}]]

\* line 252: the columns that are 1 in every row of df for the movie; with no
\* such row, dropna has nothing to drop and every column is kept
MovieGenres(frame, movieId) ==
    LET movie_rows == SelectSeq(frame.rows, LAMBDA r : r.movieId = movieId)
    IN  {c \in Genres \cup frame.cols :
            \A i \in 1..Len(movie_rows) : IsOne(movie_rows[i], c)}

\* lines 257-261
ImportantRules(cluster_rules, movie_genres, history) ==
    Concat([i \in 1..Len(cluster_rules) |->
        IF cluster_rules[i].consequents \subseteq movie_genres
        THEN LET hits == SelectSeq(history,
                            LAMBDA h : cluster_rules[i].antecedents \subseteq h.genres)
             IN  [j \in 1..Len(hits) |-> <<cluster_rules[i], hits[j].rating>>]
        ELSE <<>>])

\* rules[0][cluster] exists
HasEntry(rs, cluster) == Len(rs) >= 1 /\ cluster + 1 <= Len(rs[1])

filterRules_rulesFirst(userId, movieId, frame, cluster, cmr, rs) ==
    LET user_movies == UserMovies(frame, userId)
        rated == SelectSeq(user_movies, LAMBDA r : r.movieId = movieId)
    IN  IF ~HasEntry(rs, cluster) THEN Raised("IndexError")
        ELSE IF rated # <<>> THEN Number(rated[1].rating)
        ELSE IF user_movies = <<>> THEN cmr
        ELSE List(ImportantRules(rs[1][cluster + 1], MovieGenres(frame, movieId),
                                 History(frame, user_movies)))

filterRules(userId, movieId, frame, cluster, cmr, rs) ==
    LET user_movies == UserMovies(frame, userId)
        rated == SelectSeq(user_movies, LAMBDA r : r.movieId = movieId)
    IN  IF rated # <<>> THEN Number(rated[1].rating)
        ELSE IF user_movies = <<>> THEN cmr
        ELSE IF ~HasEntry(rs, cluster) THEN Raised("IndexError")
        ELSE List(ImportantRules(rs[1][cluster + 1], MovieGenres(frame, movieId),
                                 History(frame, user_movies)))

FilterRules ==
    \E userId \in UserIds, movieId \in QueryMovieIds, cluster \in ClusterIds :
        /\ filtered' = [called |-> TRUE, userId |-> userId, movieId |-> movieId,
                        cluster |-> cluster,
                        result |-> filterRules(userId, movieId, df, cluster,
                                               cluster_mean_ratings, rules)]
        /\ UNCHANGED <<pipelineVars, rules, df, cluster_mean_ratings, rulesVars, roundVars>>

-----------------------------------------------------------------------------
(* return_datasets, lines 61-88: kf is a KFold without shuffling, whose    *)
(* test sets are consecutive blocks, the first n % k of them one row longer *)

FoldSize(n, k, i)  == (n \div k) + (IF i <= n % k THEN 1 ELSE 0)
FoldStart(n, k, i) == (i - 1) * (n \div k) + (IF i - 1 <= n % k THEN i - 1 ELSE n % k)

TestIndex(n, k, i)  == {j \in 1..n : FoldStart(n, k, i) < j
                                     /\ j <= FoldStart(n, k, i) + FoldSize(n, k, i)}

\* data.iloc[index].copy(): the rows at the indices, in order
ILoc(frame, index) ==
    LET RECURSIVE Pick(_)
        Pick(j) == IF j > Len(frame.rows) THEN <<>>
                   ELSE (IF j \in index THEN <<frame.rows[j]>> ELSE <<>>) \o Pick(j + 1)
    IN  Frame(frame.cols, Pick(1))

KFoldTrain(frame, k, i) ==
    ILoc(frame, (1..Len(frame.rows)) \ TestIndex(Len(frame.rows), k, i))
KFoldTest(frame, k, i) == ILoc(frame, TestIndex(Len(frame.rows), k, i))

ReturnDatasets ==
    /\ train_df = <<>>
    /\ \E n_splits \in 2..Len(data.rows) :
          /\ train_df' = [i \in 1..n_splits |-> KFoldTrain(data, n_splits, i)]
          /\ test_df'  = [i \in 1..n_splits |-> KFoldTest(data, n_splits, i)]
    /\ UNCHANGED <<data, cv, calls, frequent_itemsets, query, rules,
                   filterVars, rulesVars, roundVars>>

-----------------------------------------------------------------------------
(* train_kmeans_and_predict, lines 91-136                                  *)

\* the columns left by drop(columns=['userId', 'movieId', 'rating', 'title'])
FeatureCols(frame) == Genres \cup frame.cols

\* a row of X_train / X_test
FeatureVector(row, cols) ==
    [genres |-> row.genres,
     cluster |-> IF "cluster" \in cols THEN row.cluster ELSE NoCluster,
     predicted_rating |-> IF "predicted_rating" \in cols THEN row.predicted_rating
                          ELSE NoPrediction]

Vectors(frame) == {FeatureVector(frame.rows[j], frame.cols) : j \in 1..Len(frame.rows)}

\* KMeans(n_clusters).fit(X_train), lines 117-118.  The library is a black box:
\* a fitted model assigns a cluster id in 0..n_clusters-1 to each feature
\* vector, the same id to equal vectors; which id is the library's choice.
\* The model is drawn over the vectors of the train rows and, when they share
\* the train frame's columns, of the dataset's rows.
KMeansFits(train_data, n_clusters) ==
    LET seen == Vectors(train_data)
                \cup (IF train_data.cols = data.cols THEN Vectors(data) ELSE {})
    IN  {[n_clusters |-> n_clusters, cols |-> FeatureCols(train_data), assign |-> a] :
            a \in [seen -> 0..(n_clusters - 1)]}

\* train_data.groupby('cluster')['rating'].mean(), lines 127 and 161
ClusterMeanRatings(frame) ==
    LET present == {frame.rows[j].cluster : j \in 1..Len(frame.rows)}
        members(c) == SelectSeq(frame.rows, LAMBDA r : r.cluster = c)
    IN  [c \in present |->
            Frac(SeqSum([j \in 1..Len(members(c)) |-> members(c)[j].rating]),
                 Len(members(c)))]

\* test_data['cluster'].map(cluster_mean_ratings), line 128
MapBaseline(c, cmr) == IF c \in DOMAIN cmr THEN Mean(cmr[c]) ELSE NaN

\* mean_squared_error(y_test, predicted), line 130, on finite predictions
MeanSquaredError(rows) ==
    LET RECURSIVE Total(_)
        Total(j) ==
            IF j > Len(rows) THEN Frac(0, 1)
            ELSE LET p == rows[j].predicted_rating
                     e == rows[j].rating * p.d - p.n
                 IN  FracAdd(Frac(e * e, p.d * p.d), Total(j + 1))
    IN  Frac(Total(1).n, Total(1).d * Len(rows))

FoldRaised(st, i, error) ==
    [st EXCEPT !.status = "raised", !.fold = i, !.error = error]

\* lines 110-134 for fold i with the fitted model kmeans; st holds the two
\* frame lists, which the body mutates in place, and the three result lists
EvaluateFold(st, i, kmeans) ==
    LET train_data == st.train_df[i]
        test_data  == st.test_df[i]
        X_train    == FeatureCols(train_data)
        X_test     == FeatureCols(test_data)
        \* line 120: the caller's train frame gets the labels
        labelled   == Frame(train_data.cols \cup {"cluster"},
                        [j \in 1..Len(train_data.rows) |->
                            [train_data.rows[j] EXCEPT !.cluster =
                                kmeans.assign[FeatureVector(train_data.rows[j],
                                                            train_data.cols)]]])
        st1        == [st EXCEPT !.train_df[i] = labelled]
        \* lines 122-123: drop returns a copy, otherwise test_data is the caller's frame
        stale      == "predicted_rating" \in test_data.cols
        dropped    == IF stale
                      THEN Frame(test_data.cols \ {"predicted_rating"},
                             [j \in 1..Len(test_data.rows) |->
                                [test_data.rows[j] EXCEPT !.predicted_rating = NoPrediction]])
                      ELSE test_data
        \* line 125, on the X_test of line 114
        clustered  == Frame(dropped.cols \cup {"cluster"},
                        [j \in 1..Len(dropped.rows) |->
                            [dropped.rows[j] EXCEPT !.cluster =
                                kmeans.assign[FeatureVector(test_data.rows[j],
                                                            test_data.cols)]]])
        cmr        == ClusterMeanRatings(labelled)
        \* line 128
        predicted_ == Frame(clustered.cols \cup {"predicted_rating"},
                        [j \in 1..Len(clustered.rows) |->
                            [clustered.rows[j] EXCEPT !.predicted_rating =
                                MapBaseline(clustered.rows[j].cluster, cmr)]])
        st2        == IF stale THEN st1 ELSE [st1 EXCEPT !.test_df[i] = predicted_]
    IN  IF X_test # X_train
        THEN FoldRaised(st1, i, "predict: feature mismatch")
        ELSE IF \E j \in 1..Len(predicted_.rows) : predicted_.rows[j].predicted_rating = NaN
        THEN FoldRaised(st2, i, "mean_squared_error: input contains NaN")
        ELSE [st2 EXCEPT !.mse_list  = Append(@, MeanSquaredError(predicted_.rows)),
                         !.models    = Append(@, kmeans),
                         !.train_dfs = Append(@, i)]

\* the loop of lines 109-134 from fold i on: every outcome the fitted models
\* allow.  An exception ends the call; the frames mutated so far stay mutated.
RECURSIVE EvaluateFolds(_, _, _)
EvaluateFolds(st, i, n_clusters) ==
    IF i > Len(st.train_df) THEN {st}
    ELSE IF Len(st.train_df[i].rows) < n_clusters
    THEN {FoldRaised(st, i, "fit: n_samples < n_clusters")}
    ELSE UNION {LET st1 == EvaluateFold(st, i, kmeans)
                IN  IF st1.status = "raised" THEN {st1}
                    ELSE EvaluateFolds(st1, i + 1, n_clusters) :
                kmeans \in KMeansFits(st.train_df[i], n_clusters)}

NoQuery == [status |-> "none"]
NoItemsets == [status |-> "none", min_support |-> 0, value |-> <<>>]
NoResult == [status |-> "none", n_clusters |-> 0, fold |-> 0, error |-> "",
             mse_list |-> <<>>, models |-> <<>>, train_dfs |-> <<>>]

\* cv keeps what the caller holds after the call: on a return the three lists
\* (train_dfs as references to the frames of train_df), on an exception the
\* lists of the last call that returned
TrainKMeansAndPredict ==
    /\ train_df # <<>>
    /\ calls < MaxCalls
    /\ \E n_clusters \in 1..MaxClusters :
       \E out \in EvaluateFolds([status |-> "returned", fold |-> 0, error |-> "",
                                 train_df |-> train_df, test_df |-> test_df,
                                 mse_list |-> <<>>, models |-> <<>>, train_dfs |-> <<>>],
                                1, n_clusters) :
          /\ train_df' = out.train_df
          /\ test_df' = out.test_df
          /\ cv' = IF out.status = "returned"
                   THEN [status |-> "returned", n_clusters |-> n_clusters,
                         fold |-> 0, error |-> "",
                         mse_list |-> out.mse_list, models |-> out.models,
                         train_dfs |-> out.train_dfs]
                   ELSE [cv EXCEPT !.status = "raised", !.n_clusters = n_clusters,
                                   !.fold = out.fold, !.error = out.error]
    /\ calls' = calls + 1
    /\ UNCHANGED <<data, frequent_itemsets, query, rules,
                   filterVars, rulesVars, roundVars>>

-----------------------------------------------------------------------------
(* predict_rating_kmeans, lines 138-164                                    *)

None == [type |-> "None"]

\* models[0].predict(movie_features): one label per row of movie_features
Predict(kmeans, frame) ==
    [j \in 1..Len(frame.rows) |->
        kmeans.assign[FeatureVector(frame.rows[j], frame.cols)]]

\* the caller hands over the lists train_kmeans_and_predict returned and the
\* dataset as movie_data; user_id is not read
PredictRatingKMeans ==
    /\ cv.models # <<>>
    /\ \E movie_id \in QueryMovieIds :
          LET movie_features ==
                  Frame(data.cols, SelectSeq(data.rows, LAMBDA r : r.movieId = movie_id))
              kmeans == cv.models[1]
              cmr == ClusterMeanRatings(train_df[cv.train_dfs[1]])
          IN  query' =
                IF movie_features.rows = <<>>
                THEN [status |-> "returned None", movie_id |-> movie_id]
                ELSE IF FeatureCols(movie_features) # kmeans.cols
                THEN [status |-> "raised", movie_id |-> movie_id]
                ELSE LET predicted_cluster == Predict(kmeans, movie_features)
                     IN  [status |-> "returned", movie_id |-> movie_id,
                          \* cluster_mean_ratings.get(predicted_cluster[0], None)
                          predicted_rating |->
                              IF predicted_cluster[1] \in DOMAIN cmr
                              THEN Mean(cmr[predicted_cluster[1]]) ELSE None,
                          predicted_cluster |-> predicted_cluster,
                          cluster_mean_ratings |-> Series(cmr)]
    /\ UNCHANGED <<data, train_df, test_df, cv, calls, frequent_itemsets, rules,
                   filterVars, rulesVars, roundVars>>

-----------------------------------------------------------------------------
(* getFrequentItemset, lines 167-190, and getRules, lines 193-215          *)

\* train_df['cluster'].unique(): the values in the order they first appear
Unique(s) ==
    LET RECURSIVE Firsts(_)
        Firsts(j) == IF j > Len(s) THEN <<>>
                     ELSE (IF \E h \in 1..(j - 1) : s[h] = s[j] THEN <<>> ELSE <<s[j]>>)
                          \o Firsts(j + 1)
    IN  Firsts(1)

\* the non-empty sets of genre columns in the order apriori emits them: by
\* size, then by the position of their columns
ItemsetOrder ==
    LET one == [i \in 1..Len(GenreCols) |-> {GenreCols[i]}]
        two == <<{GenreCols[1], GenreCols[2]}, {GenreCols[1], GenreCols[3]},
                 {GenreCols[2], GenreCols[3]}>>
    IN  one \o two \o <<Genres>>

\* as percentages: the default min_support of line 167 and a second value
MinSupports == {2, 60}
\* metric and min_threshold as a percentage: the defaults of line 193 and a
\* second pair
RuleMetrics == {<<"confidence", 80>>, <<"support", 50>>}

AtLeast(f, percent) == f.n * 100 >= percent * f.d

\* how many of the rows hold every genre of the itemset
Count(rows, itemset) ==
    Cardinality({j \in 1..Len(rows) : itemset \subseteq rows[j].genres})

\* apriori(rows, min_support, use_colnames=True) on the genre columns
Apriori(rows, min_support) ==
    LET table == [i \in 1..Len(ItemsetOrder) |->
                    [support |-> Frac(Count(rows, ItemsetOrder[i]), Len(rows)),
                     itemsets |-> ItemsetOrder[i]]]
    IN  SelectSeq(table, LAMBDA e : AtLeast(e.support, min_support))

\* lines 180-188 for one fold's frame
FoldItemsets(frame, min_support) ==
    LET clusters == Unique([j \in 1..Len(frame.rows) |-> frame.rows[j].cluster])
    IN  [k \in 1..Len(clusters) |->
            Apriori(SelectSeq(frame.rows, LAMBDA r : r.cluster = clusters[k]),
                    min_support)]

GetFrequentItemset ==
    /\ cv.train_dfs # <<>>
    /\ \E min_support \in MinSupports :
          frequent_itemsets' =
              [status |-> "returned", min_support |-> min_support,
               value |-> [f \in 1..Len(cv.train_dfs) |->
                             FoldItemsets(train_df[cv.train_dfs[f]], min_support)]]
    /\ UNCHANGED <<data, train_df, test_df, cv, calls, query, rules,
                   filterVars, rulesVars, roundVars>>

SupportOf(freq, itemset) ==
    LET hit == SelectSeq(freq, LAMBDA e : e.itemsets = itemset)
    IN  hit[1].support

\* association_rules(freq, metric, min_threshold): for every frequent itemset
\* of two or more genres, every split into antecedent and consequent, the
\* larger antecedents first, whose metric reaches the threshold
AssociationRules(freq, metric, min_threshold) ==
    LET splits(itemset) ==
            SelectSeq([i \in 1..Len(ItemsetOrder) |->
                          ItemsetOrder[Len(ItemsetOrder) + 1 - i]],
                      LAMBDA a : a \subseteq itemset /\ a # itemset)
        rule(itemset, a) ==
            LET sAC == SupportOf(freq, itemset)
                sA  == SupportOf(freq, a)
            IN  Rule(a, itemset \ a, Frac(sAC.n * sA.d, sAC.d * sA.n), sAC)
        keep(r) == IF metric = "confidence" THEN AtLeast(r.confidence, min_threshold)
                   ELSE AtLeast(r.support, min_threshold)
    IN  Concat([i \in 1..Len(freq) |->
            SelectSeq([j \in 1..Len(splits(freq[i].itemsets)) |->
                          rule(freq[i].itemsets, splits(freq[i].itemsets)[j])],
                      keep)])

\* association_rules raises ValueError on an empty frame of itemsets; the
\* exception ends getRules and the caller's rules stay as they were
GetRules ==
    /\ frequent_itemsets.status = "returned"
    /\ \E mt \in RuleMetrics :
          LET freq_itemsets == frequent_itemsets.value
              metric == mt[1]
              min_threshold == mt[2]
          IN  rules' =
                IF \E f \in 1..Len(freq_itemsets) :
                       \E k \in 1..Len(freq_itemsets[f]) : freq_itemsets[f][k] = <<>>
                THEN rules
                ELSE [f \in 1..Len(freq_itemsets) |->
                        [k \in 1..Len(freq_itemsets[f]) |->
                            AssociationRules(freq_itemsets[f][k], metric, min_threshold)]]
    /\ UNCHANGED <<data, train_df, test_df, cv, calls, frequent_itemsets, query,
                   filterVars, rulesVars, roundVars>>

-----------------------------------------------------------------------------
(* Inputs of the refiner                                                   *)

RuleUniverse ==
    {Rule({"Action"}, {"Drama"}, Frac(4, 5), Frac(2, 5)),
     Rule({"Comedy", "Drama"}, {"Action"}, Frac(1, 2), Frac(1, 5))}

\* a rule of confidence 0, the lower end of the confidence range
ZeroRule == Rule({"Drama"}, {"Comedy"}, Frac(0, 1), Frac(0, 1))

\* the baseline tables of a two-row train frame, as line 161 computes them
SeriesUniverse ==
    {Series(ClusterMeanRatings(Frame({"cluster"},
                <<[Row(1, 1, 400) EXCEPT !.cluster = 0],
                  [Row(2, 2, 100) EXCEPT !.cluster = c]>>))) : c \in ClusterIds}

NoCall == [called |-> FALSE, userId |-> 0, movieId |-> 0, cluster |-> 0,
           result |-> Raised("none")]

PipelineIdle ==
    /\ data = Frame({}, <<>>)
    /\ train_df = <<>>
    /\ test_df = <<>>
    /\ cv = NoResult
    /\ calls = 0
    /\ frequent_itemsets = NoItemsets
    /\ query = NoQuery

FilterIdle ==
    /\ df = Frame({}, <<>>)
    /\ cluster_mean_ratings = Series(<<>>)
    /\ filtered = NoCall

RulesIdle == important_rules = <<>> /\ predicted = NotCalled
RoundIdle == rating = 0 /\ rounded = NotCalled

\* the refiner's filter stage on every small dataset, rule list and baseline table
InitFilter ==
    /\ PipelineIdle /\ RulesIdle /\ RoundIdle
    /\ df \in Datasets(RowUniverse, 0, MaxRows)
    /\ rules \in {<<>>} \cup
                 {<<rs0>> : rs0 \in SeqsUpTo(SeqsUpTo(RuleUniverse, MaxRules),
                                             Cardinality(ClusterIds))}
    /\ cluster_mean_ratings \in SeriesUniverse
    /\ filtered = NoCall

SpecFilter == InitFilter /\ [][FilterRules]_vars

\* predictRatingRules on every short list of important rules
InitRules ==
    /\ PipelineIdle /\ FilterIdle /\ RoundIdle
    /\ rules = <<>>
    /\ important_rules \in SeqsUpTo((RuleUniverse \cup {ZeroRule}) \X HistRatings,
                                    MaxImportant)
    /\ predicted = NotCalled

SpecRules == InitRules /\ [][PredictRatingRules]_vars

\* roundRating on every rating of the scale, in hundredths
InitRound ==
    /\ PipelineIdle /\ FilterIdle /\ RulesIdle
    /\ rules = <<>>
    /\ rating \in 0..MaxRating
    /\ rounded = NotCalled

SpecRound == InitRound /\ [][RoundRating]_vars

\* the cross-validation pipeline on every small dataset
Init ==
    /\ FilterIdle /\ RulesIdle /\ RoundIdle
    /\ data \in Datasets(RatedPairs, MaxData, MaxData)
    /\ train_df = <<>>
    /\ test_df = <<>>
    /\ cv = NoResult
    /\ calls = 0
    /\ frequent_itemsets = NoItemsets
    /\ rules = <<>>
    /\ query = NoQuery

Next ==
    \/ ReturnDatasets
    \/ TrainKMeansAndPredict
    \/ PredictRatingKMeans
    \/ GetFrequentItemset
    \/ GetRules

Spec == Init /\ [][Next]_vars

-----------------------------------------------------------------------------
(* Claims about the refiner                                                *)

\* the rows of df that hold the call's (userId, movieId)
RatedRows == {i \in 1..Len(df.rows) : /\ df.rows[i].userId = filtered.userId
                                      /\ df.rows[i].movieId = filtered.movieId}
UserRows == {i \in 1..Len(df.rows) : df.rows[i].userId = filtered.userId}

\* C1: whenever df holds a row for (userId, movieId) with rating R, filterRules
\* returns exactly R, whatever the cluster argument and the rules are.
C1_AlreadyRatedReturnsRating ==
    filtered.called =>
        \A i \in RatedRows : /\ filtered.result.type = "number"
                              /\ filtered.result.value = df.rows[i].rating

\* the user rated the movie, another user rated it differently, and the rules
\* have no entry for the cluster
C1_Witness ==
    /\ filtered.called
    /\ ~HasEntry(rules, filtered.cluster)
    /\ \E i \in RatedRows, j \in 1..Len(df.rows) :
          /\ df.rows[j].movieId = filtered.movieId
          /\ df.rows[j].rating # df.rows[i].rating
          /\ filtered.result.type = "number"
          /\ filtered.result.value = df.rows[i].rating

\* C2: whenever df holds no row for userId, filterRules returns the baseline mean
\* rating of the given cluster, a single rating value.
C2_ColdUserReturnsClusterMean ==
    (filtered.called /\ UserRows = {}) =>
        /\ filtered.result.type = "number"
        /\ filtered.cluster \in DOMAIN cluster_mean_ratings.value
        /\ FracEq(Frac(filtered.result.value, 1),
                  cluster_mean_ratings.value[filtered.cluster])

\* the pairs the claim asks for: a rule of the cluster's entry whose consequent
\* is within the target movie's genre flags, with the rating of a history row
\* whose genre flags hold the rule's antecedent
C10_Expected ==
    LET rs == rules[1][filtered.cluster + 1]
    IN  {ij \in (1..Len(rs)) \X UserRows :
            /\ rs[ij[1]].consequents \subseteq GenresOf(filtered.movieId)
            /\ rs[ij[1]].antecedents \subseteq df.rows[ij[2]].genres}

C10_PairOf(ij) == <<rules[1][filtered.cluster + 1][ij[1]], df.rows[ij[2]].rating>>

C10_Applies ==
    /\ filtered.called
    /\ UserRows # {}
    /\ RatedRows = {}
    /\ HasEntry(rules, filtered.cluster)

\* C10: for a user with history who has not rated the target movie, the result
\* lists one (rule, historical rating) pair for exactly every combination of a
\* rule of rules[0][cluster] and a rated movie that match the target movie's
\* genre flags and the rated movie's genre flags, also when no row of df
\* mentions the target movie.
C10_ExactlyTheMatchingPairs ==
    C10_Applies =>
        /\ filtered.result.type = "list"
        /\ LET res == filtered.result.value
           IN  \A p \in Range(res) \cup {C10_PairOf(ij) : ij \in C10_Expected} :
                  Cardinality({k \in 1..Len(res) : res[k] = p})
                    = Cardinality({ij \in C10_Expected : C10_PairOf(ij) = p})

\* sums of the claim's formula, taken over the index set of the list
C7_Weight(i) ==
    LET others == [j \in 1..Len(important_rules) |->
                      IF j = i THEN 1 ELSE important_rules[j][1].confidence.d]
        RECURSIVE Prod(_)
        Prod(s) == IF s = <<>> THEN 1 ELSE Head(s) * Prod(Tail(s))
    IN  important_rules[i][1].confidence.n * Prod(others)
C7_Num == SeqSum([i \in 1..Len(important_rules) |->
                     C7_Weight(i) * important_rules[i][2]])
C7_Den == SeqSum([i \in 1..Len(important_rules) |-> C7_Weight(i)])

\* C7: when the confidences sum to a non-zero value the result is
\* sum(confidence_i * rating_i) / sum(confidence_i) rounded to 2 decimal places,
\* whatever the order of the list; confidences 0.8 and 0.5 with ratings 4.0 and
\* 3.0 give 3.62.
C7_WeightedAverage ==
    (predicted.called /\ C7_Den # 0) =>
        /\ 2 * predicted.value * C7_Den <= 2 * C7_Num + C7_Den
        /\ 2 * predicted.value * C7_Den >= 2 * C7_Num - C7_Den
        /\ \A p \in Permutations(1..Len(important_rules)) :
              predictRatingRules([i \in 1..Len(important_rules) |->
                                     important_rules[p[i]]]) = predicted.value
        /\ (\E r1, r2 \in RuleUniverse :
               /\ r1.confidence = Frac(4, 5) /\ r2.confidence = Frac(1, 2)
               /\ important_rules = <<<<r1, 400>>, <<r2, 300>>>>)
           => predicted.value = 362

C7_Witness ==
    /\ predicted.called
    /\ Len(important_rules) = 2
    /\ important_rules[1][1].confidence = Frac(4, 5)
    /\ important_rules[1][2] = 400
    /\ important_rules[2][1].confidence = Frac(1, 2)
    /\ important_rules[2][2] = 300
    /\ predicted.value = 362

\* C8: predictRatingRules([]) returns 0, and every non-empty list of important
\* rules gives a result that differs from that sentinel.
C8_SentinelOnlyWhenEmpty ==
    predicted.called =>
        /\ important_rules = <<>> => predicted.value = 0
        /\ important_rules # <<>> => predicted.value # 0

C9_Cases ==
    LET n == rating \div 100
        d == rating - 100 * n
    IN  /\ d < 25 => rounded.value = 100 * n
        /\ (25 <= d /\ d < 75) => rounded.value = 100 * n + 50
        /\ d >= 75 => rounded.value = 100 * n + 100

\* C9 as stated: the three cases of the fractional part, and in particular
\* roundRating(2.1) = 2, roundRating(2.4) = 2, roundRating(2.25) = 2.5,
\* roundRating(2.7) = 2.5 and roundRating(2.76) = 3.
C9_AsStated ==
    rounded.called =>
        /\ C9_Cases
        /\ rating = 210 => rounded.value = 200
        /\ rating = 240 => rounded.value = 200
        /\ rating = 225 => rounded.value = 250
        /\ rating = 270 => rounded.value = 250
        /\ rating = 276 => rounded.value = 300

\* C9 amended: the three cases of the fractional part, and in particular
\* roundRating(2.1) = 2, roundRating(2.4) = 2.5, roundRating(2.25) = 2.5,
\* roundRating(2.7) = 2.5 and roundRating(2.76) = 3.
C9_HalfPointRounding ==
    rounded.called =>
        /\ C9_Cases
        /\ rating = 210 => rounded.value = 200
        /\ rating = 240 => rounded.value = 250
        /\ rating = 225 => rounded.value = 250
        /\ rating = 270 => rounded.value = 250
        /\ rating = 276 => rounded.value = 300

C9_Witness == rounded.called /\ rating = 225 /\ rounded.value = 250

-----------------------------------------------------------------------------
(* Claims about the pipeline                                               *)

ClusterRows(frame, c) == SelectSeq(frame.rows, LAMBDA r : r.cluster = c)
ClustersOf(frame) == {frame.rows[j].cluster : j \in 1..Len(frame.rows)}

\* C3: for every fold f and every cluster id c present in fold f's training
\* rows, the entry at position [f][c] of getFrequentItemset's result, and of
\* getRules' result, is the one mined from exactly the fold-f training rows
\* whose cluster id is c.  Stated after the first sweep, when the frames still
\* carry the labels the itemsets and rules were mined from.
C3_KeyedByClusterId ==
    calls = 1 =>
    /\ frequent_itemsets.status = "returned" =>
          \A f \in 1..Len(frequent_itemsets.value) :
              LET frame == train_df[cv.train_dfs[f]]
              IN  \A c \in ClustersOf(frame) :
                     /\ c + 1 <= Len(frequent_itemsets.value[f])
                     /\ frequent_itemsets.value[f][c + 1]
                          = Apriori(ClusterRows(frame, c), frequent_itemsets.min_support)
    /\ \A f \in 1..Len(rules) :
          LET frame == train_df[cv.train_dfs[f]]
          IN  \A c \in ClustersOf(frame) :
                 /\ c + 1 <= Len(rules[f])
                 /\ \E min_support \in MinSupports, mt \in RuleMetrics :
                       rules[f][c + 1]
                         = AssociationRules(Apriori(ClusterRows(frame, c), min_support),
                                            mt[1], mt[2])

\* the last call returned fold i's error, model and train set
C4_Reported(i) ==
    /\ cv.status = "returned"
    /\ \E k \in 1..Len(cv.train_dfs) :
          cv.train_dfs[k] = i /\ k <= Len(cv.mse_list) /\ k <= Len(cv.models)

\* C4: when one fold's evaluation fails, every other fold of the list is still
\* evaluated and its error, model and augmented train set are returned.
C4_FailingFoldDoesNotAbort ==
    cv.status = "raised" =>
        \A i \in (1..Len(train_df)) \ {cv.fold} :
            /\ "cluster" \in train_df[i].cols
            /\ C4_Reported(i)

\* C5: whenever the cluster assigned to a test row or to the queried movie has
\* no training member, the predicted rating is the missing-value marker and the
\* operation completes, so that the marker reaches the caller.
C5_MissingBaselinePropagates ==
    /\ \A i \in 1..Len(test_df) :
          (\E j \in 1..Len(test_df[i].rows) : test_df[i].rows[j].predicted_rating = NaN)
              => ~(cv.status = "raised" /\ cv.fold = i
                   /\ cv.error = "mean_squared_error: input contains NaN")
    /\ query.status # "raised"
    /\ query.status = "returned" =>
          (query.predicted_cluster[1] \notin DOMAIN query.cluster_mean_ratings.value
              => query.predicted_rating = None)

\* C6: after any number of calls of train_kmeans_and_predict every test_df[i]
\* has the columns and the values it had before the first call.
C6_TestRowsUntouched ==
    \A i \in 1..Len(test_df) : test_df[i] = KFoldTest(data, Len(test_df), i)

=============================================================================
